---- MODULE Spec2Model ----
(***************************************************************************)
(* A model of the ChessBot repository: the Board of src/src/board.py, the  *)
(* move generator of src/src/piece.py, the search of src/src/bot.py and    *)
(* the event loop of src/src/main.py.                                      *)
(*                                                                         *)
(* board.py reads a piece's square and side as piece.ind_pos and           *)
(* piece.team; piece.py calls the same two attributes pos and color.  The  *)
(* model has one record per piece, [name, team, ind_pos], and reads        *)
(* piece.py's self.pos / self.color as ind_pos / team.  A square is the    *)
(* pair <<x, y>> that indexes board.blocks[x][y].                          *)
(*                                                                         *)
(* Python objects are modelled by their values: a block holds the value of *)
(* the piece it references, and a character string is a sequence of        *)
(* one-character strings.                                                  *)
(***************************************************************************)
EXTENDS Integers, Sequences, FiniteSets, TLC

\* ------------------------------------------------------------------------
\* Bounds of the model
\* ------------------------------------------------------------------------

\* Board.move calls that change the position, per Board object.
MaxMoves == 4

\* Snapshots kept in board.board_states, per Board object.
MaxHist == 3

\* The blocks a caller passes as the start block, and the blocks clicked,
\* have x <= MaxFile.
MaxFile == 4

\* Records in a state string handed to load_prev_state.
MaxRecords == 2

\* The coordinates handed to the factories are -1..MaxCoord.
MaxCoord == 8

\* The depth a caller passes to minimax.
MaxDepth == 2

\* minimax is called on a Board on which at most this many moves have been
\* made.
MaxSearchMoves == 1

\* The state strings of the callers of calculate_moves hold a piece and up
\* to MaxBlockers other pieces.
MaxBlockers == 1

\* ------------------------------------------------------------------------
\* Values
\* ------------------------------------------------------------------------

Squares == (0..7) \X (0..7)

\* Python's None, for a block without a piece and for find_by_pos.
NoPiece == [name |-> "None", team |-> "None", ind_pos |-> <<-1, -1>>]

\* Python's None, as _check_position_bounds returns it.
NonePos == <<-9, -9>>

\* main.py: the side of the human and the side of the bot.
HUMAN_PLAYER == "b"
BOT_PLAYER == IF HUMAN_PLAYER = "w" THEN "b" ELSE "w"

Piece(name, pos, team) == [name |-> name, team |-> team, ind_pos |-> pos]

\* "x, y = p" and piece_factory(name, (y, x), team): where Board.__init__
\* puts the piece init_positions lists at p.
Placed(p) == <<p[2], p[1]>>

\* Board.__init__: the pieces in creation order.  init_positions gives
\* (x, y) and the piece is created on (y, x); the first half of every list
\* is white.
InitPieces ==
    << Piece("king", <<3, 0>>, "w"),   Piece("king", <<4, 7>>, "b"),
       Piece("queen", <<4, 0>>, "w"),  Piece("queen", <<3, 7>>, "b"),
       Piece("rook", <<0, 0>>, "w"),   Piece("rook", <<7, 0>>, "w"),
       Piece("rook", <<0, 7>>, "b"),   Piece("rook", <<7, 7>>, "b"),
       Piece("bishop", <<2, 0>>, "w"), Piece("bishop", <<5, 0>>, "w"),
       Piece("bishop", <<2, 7>>, "b"), Piece("bishop", <<5, 7>>, "b"),
       Piece("knight", <<1, 0>>, "w"), Piece("knight", <<6, 0>>, "w"),
       Piece("knight", <<1, 7>>, "b"), Piece("knight", <<6, 7>>, "b") >>
    \o [j \in 1..8 |-> Piece("pawn", <<j - 1, 1>>, "w")]
    \o [j \in 1..8 |-> Piece("pawn", <<j - 1, 6>>, "b")]

\* ------------------------------------------------------------------------
\* Board.find_by_pos
\* ------------------------------------------------------------------------

\* The condition under which find_by_pos raises
\* ValueError("A block cannot hold 2 pieces at the same time.").
TwoPiecesOnOneSquare(pieces) ==
    \E i, j \in DOMAIN pieces :
        /\ i < j
        /\ pieces[i].ind_pos = pieces[j].ind_pos
        /\ pieces[i].ind_pos \in Squares

\* The value find_by_pos returns when it does not raise: the last piece of
\* the list on pos, or None.
find_by_pos(pieces, pos) ==
    LET found == {i \in DOMAIN pieces : pieces[i].ind_pos = pos}
    IN  IF found = {} THEN NoPiece
        ELSE pieces[CHOOSE i \in found : \A k \in found : k <= i]

\* ------------------------------------------------------------------------
\* Piece.calculate_moves
\* ------------------------------------------------------------------------

\* Variant: the upper bound of the grid off by one.
check_position_bounds_upto8(pos) ==
    IF pos[1] < 0 \/ pos[1] > 8 \/ pos[2] < 0 \/ pos[2] > 8
    THEN NonePos
    ELSE pos

check_position_bounds(pos) ==
    IF pos[1] < 0 \/ pos[1] > 7 \/ pos[2] < 0 \/ pos[2] > 7
    THEN NonePos
    ELSE pos

\* Variant: the assertions let the coordinate 8 through.
PieceFactoryFails_upto8(pos) ==
    \/ ~(0 <= pos[1] /\ pos[1] <= 8)
    \/ ~(0 <= pos[2] /\ pos[2] <= 8)

\* PieceFactory.__call__ raises AssertionError: one of its two assertions
\* on pos fails.
PieceFactoryFails(pos) ==
    \/ ~(0 <= pos[1] /\ pos[1] < 8)
    \/ ~(0 <= pos[2] /\ pos[2] < 8)

\* MoveFactory.__call__ raises AssertionError: one of its four assertions
\* on start_pos and end_pos fails.
MoveFactoryFails(start_pos, end_pos) ==
    \/ ~(0 <= start_pos[1] /\ start_pos[1] < 8)
    \/ ~(0 <= start_pos[2] /\ start_pos[2] < 8)
    \/ ~(0 <= end_pos[1] /\ end_pos[1] < 8)
    \/ ~(0 <= end_pos[2] /\ end_pos[2] < 8)

\* MoveFactory.__call__ / Move.__init__
Move(piece, start_pos, end_pos, score, is_capture, captured_piece) ==
    [piece |-> piece, start_pos |-> start_pos, end_pos |-> end_pos,
     score |-> score, is_capture |-> is_capture,
     captured_piece |-> captured_piece]

KingDirections ==
    << <<1, 0>>, <<-1, 0>>, <<0, -1>>, <<0, 1>>,
       <<1, 1>>, <<1, -1>>, <<-1, 1>>, <<-1, -1>> >>

QueenDirections ==
    << <<1, 0>>, <<-1, 0>>, <<0, -1>>, <<0, 1>>,
       <<1, -1>>, <<1, 1>>, <<-1, -1>>, <<-1, 1>> >>

RookDirections == << <<1, 0>>, <<-1, 0>>, <<0, -1>>, <<0, 1>> >>

BishopDirections == << <<1, -1>>, <<1, 1>>, <<-1, -1>>, <<-1, 1>> >>

\* Variant: the last direction is missing.
KnightDirections_seven ==
    << <<1, 2>>, <<1, -2>>, <<-1, 2>>, <<-1, -2>>,
       <<2, 1>>, <<2, -1>>, <<-2, 1>> >>

KnightDirections ==
    << <<1, 2>>, <<1, -2>>, <<-1, 2>>, <<-1, -2>>,
       <<2, 1>>, <<2, -1>>, <<-2, 1>>, <<-2, -1>> >>

\* Variant: a piece of the mover's own team is captured as well.
StepMove_own(self, pieces, dir, capture_score, quiet_score) ==
    LET start_pos == self.ind_pos
        end_pos == check_position_bounds(
                       <<start_pos[1] + dir[1], start_pos[2] + dir[2]>>)
        unknown_piece == find_by_pos(pieces, end_pos)
    IN  IF end_pos = NonePos THEN << >>
        ELSE IF unknown_piece # NoPiece
        THEN << Move(self, start_pos, end_pos, capture_score, TRUE,
                     unknown_piece) >>
        ELSE << Move(self, start_pos, end_pos, quiet_score, FALSE, NoPiece) >>

\* The body of the king's and the knight's loop for one direction: the
\* moves it appends.
StepMove(self, pieces, dir, capture_score, quiet_score) ==
    LET start_pos == self.ind_pos
        end_pos == check_position_bounds(
                       <<start_pos[1] + dir[1], start_pos[2] + dir[2]>>)
        unknown_piece == find_by_pos(pieces, end_pos)
    IN  IF end_pos = NonePos THEN << >>
        ELSE IF unknown_piece # NoPiece /\ self.team # unknown_piece.team
        THEN << Move(self, start_pos, end_pos, capture_score, TRUE,
                     unknown_piece) >>
        ELSE IF unknown_piece = NoPiece
        THEN << Move(self, start_pos, end_pos, quiet_score, FALSE, NoPiece) >>
        ELSE << >>

RECURSIVE StepMoves(_, _, _, _, _, _)
StepMoves(self, pieces, directions, d, capture_score, quiet_score) ==
    IF d > Len(directions) THEN << >>
    ELSE StepMove(self, pieces, directions[d], capture_score, quiet_score)
         \o StepMoves(self, pieces, directions, d + 1, capture_score,
                      quiet_score)

\* The inner loop "for i in range(8)" of the queen, the rook and the
\* bishop, from step i on: the moves it appends until it ends or breaks.
RECURSIVE Slide(_, _, _, _, _, _)
Slide(self, pieces, dir, i, capture_score, quiet_score) ==
    IF i > 7 THEN << >>
    ELSE
    LET start_pos == self.ind_pos
        end_pos == check_position_bounds(
                       <<start_pos[1] + i * dir[1], start_pos[2] + i * dir[2]>>)
        unknown_piece == find_by_pos(pieces, end_pos)
    IN  IF end_pos = NonePos
        THEN Slide(self, pieces, dir, i + 1, capture_score, quiet_score)
        ELSE IF unknown_piece # NoPiece /\ self.team # unknown_piece.team
        THEN << Move(self, start_pos, end_pos, capture_score, TRUE,
                     unknown_piece) >>
        ELSE IF unknown_piece = NoPiece
        THEN << Move(self, start_pos, end_pos, quiet_score, FALSE, NoPiece) >>
             \o Slide(self, pieces, dir, i + 1, capture_score, quiet_score)
        ELSE << >>

RECURSIVE SlideMoves(_, _, _, _, _, _)
SlideMoves(self, pieces, directions, d, capture_score, quiet_score) ==
    IF d > Len(directions) THEN << >>
    ELSE Slide(self, pieces, directions[d], 0, capture_score, quiet_score)
         \o SlideMoves(self, pieces, directions, d + 1, capture_score,
                       quiet_score)

\* Variant: every pawn is taken to stand on a home row.
PawnHomePos_always(self) == 2

\* case "pawn": home_pos, pawn_dir and the three directions.
PawnHomePos(self) ==
    IF self.ind_pos[1] = 1 \/ self.ind_pos[1] = 6 THEN 2 ELSE 1

PawnDir(self) == IF self.team = "w" THEN 1 ELSE -1

PawnDirections(self) ==
    << <<PawnDir(self) * PawnHomePos(self), 0>>,
       <<PawnDir(self), 1>>,
       <<PawnDir(self), -1>> >>

\* The pawn's loop over its directions, from direction d on.
RECURSIVE PawnMoves(_, _, _)
PawnMoves(self, pieces, d) ==
    IF d > 3 THEN << >>
    ELSE
    LET start_pos == self.ind_pos
        home_pos == PawnHomePos(self)
        pawn_dir == PawnDir(self)
        forward == <<pawn_dir * home_pos, 0>>
        dir == PawnDirections(self)[d]
        end_pos == check_position_bounds(
                       <<start_pos[1] + dir[1], start_pos[2] + dir[2]>>)
        unknown_piece == find_by_pos(pieces, end_pos)
        inter_pos == <<end_pos[1] - pawn_dir, end_pos[2]>>
        inter_piece == find_by_pos(pieces, inter_pos)
    IN  IF end_pos = NonePos
        THEN PawnMoves(self, pieces, d + 1)
        ELSE IF /\ unknown_piece # NoPiece
                /\ self.team # unknown_piece.team
                /\ dir # forward
        THEN << Move(self, start_pos, end_pos, 20, TRUE, unknown_piece) >>
             \o PawnMoves(self, pieces, d + 1)
        ELSE IF unknown_piece = NoPiece /\ dir = forward
        THEN IF inter_piece # NoPiece
             THEN << >>
             ELSE << Move(self, start_pos, end_pos, 0, FALSE, NoPiece) >>
                  \o (IF home_pos = 2
                      THEN << Move(self, start_pos, inter_pos, 0, FALSE,
                                   NoPiece) >>
                      ELSE << >>)
                  \o PawnMoves(self, pieces, d + 1)
        ELSE IF unknown_piece # NoPiece /\ self.team = unknown_piece.team
        THEN << >>
        ELSE PawnMoves(self, pieces, d + 1)

\* Variant: the knight's captures score 0 like its quiet moves.
calculate_moves_flat(self, pieces) ==
    CASE self.name = "king" ->
             StepMoves(self, pieces, KingDirections, 1, 10000, 1000)
      [] self.name = "queen" ->
             SlideMoves(self, pieces, QueenDirections, 1, 600, 300)
      [] self.name = "rook" ->
             SlideMoves(self, pieces, RookDirections, 1, 200, 100)
      [] self.name = "bishop" ->
             SlideMoves(self, pieces, BishopDirections, 1, 100, 50)
      [] self.name = "knight" ->
             StepMoves(self, pieces, KnightDirections, 1, 0, 0)
      [] self.name = "pawn" -> PawnMoves(self, pieces, 1)
      [] OTHER -> << >>

\* self.available_moves at the return of calculate_moves, in the order of
\* the appends.  The code returns list(set(available_moves)): the same
\* moves (Move defines no __eq__ or __hash__, so none is merged) in an
\* order that depends on the objects' addresses.
calculate_moves(self, pieces) ==
    CASE self.name = "king" ->
             StepMoves(self, pieces, KingDirections, 1, 10000, 1000)
      [] self.name = "queen" ->
             SlideMoves(self, pieces, QueenDirections, 1, 600, 300)
      [] self.name = "rook" ->
             SlideMoves(self, pieces, RookDirections, 1, 200, 100)
      [] self.name = "bishop" ->
             SlideMoves(self, pieces, BishopDirections, 1, 100, 50)
      [] self.name = "knight" ->
             StepMoves(self, pieces, KnightDirections, 1, 100, 0)
      [] self.name = "pawn" -> PawnMoves(self, pieces, 1)
      [] OTHER -> << >>

\* [p.end_pos for p in piece.calculate_moves(self)]
EndPositions(moves) == {moves[k].end_pos : k \in DOMAIN moves}

\* ------------------------------------------------------------------------
\* Characters and strings
\* ------------------------------------------------------------------------

Digits == <<"0", "1", "2", "3", "4", "5", "6", "7", "8", "9">>

\* str(n) for the one-digit numbers a coordinate can be.
str(n) == <<Digits[n + 1]>>

IsDigit(c) == \E k \in DOMAIN Digits : Digits[k] = c

\* int(c) for a digit character.
int(c) == (CHOOSE k \in DOMAIN Digits : Digits[k] = c) - 1

\* str.capitalize() and str.lower() on one character.
capitalize(c) ==
    CASE c = "w" -> "W" [] c = "b" -> "B" [] c = "k" -> "K"
      [] c = "q" -> "Q" [] c = "r" -> "R" [] c = "p" -> "P"
      [] c = "x" -> "X" [] OTHER -> c

lower(c) ==
    CASE c = "W" -> "w" [] c = "B" -> "b" [] c = "K" -> "k"
      [] c = "Q" -> "q" [] c = "R" -> "r" [] c = "P" -> "p"
      [] c = "X" -> "x" [] OTHER -> c

\* name[0] and team[0]
FirstChar(word) ==
    CASE word = "king" -> "k" [] word = "queen" -> "q" [] word = "rook" -> "r"
      [] word = "bishop" -> "b" [] word = "knight" -> "k"
      [] word = "pawn" -> "p" [] OTHER -> word

\* ------------------------------------------------------------------------
\* The Board object
\* ------------------------------------------------------------------------

\* self.players = [bot, human]; self.c_players = cycle(self.players) is
\* modelled by the index of the element next() returns.
Players == <<BOT_PLAYER, HUMAN_PLAYER>>

\* The blocks as the loop over the pieces assigns them: a later piece on a
\* square replaces an earlier one.
BlocksOf(pieces) == [sq \in Squares |-> find_by_pos(pieces, sq)]

\* Variant: the kind letter always in upper case.
RECURSIVE SerializePieces_upper(_, _)
SerializePieces_upper(pieces, i) ==
    IF i > Len(pieces) THEN << >>
    ELSE LET piece == pieces[i]
         IN  <<capitalize(FirstChar(piece.team))>>
             \o <<capitalize(FirstChar(piece.name))>>
             \o str(piece.ind_pos[1])
             \o str(piece.ind_pos[2])
             \o SerializePieces_upper(pieces, i + 1)

\* Board.serialize: the string it builds.
RECURSIVE SerializePieces(_, _)
SerializePieces(pieces, i) ==
    IF i > Len(pieces) THEN << >>
    ELSE LET piece == pieces[i]
             name == piece.name
         IN  <<capitalize(FirstChar(piece.team))>>
             \o (IF name = "knight" \/ name = "bishop"
                 THEN <<FirstChar(name)>>
                 ELSE <<capitalize(FirstChar(name))>>)
             \o str(piece.ind_pos[1])
             \o str(piece.ind_pos[2])
             \o SerializePieces(pieces, i + 1)

\* Variant: the string without the character of the side to move.
board_state_pieces(b) == SerializePieces(b.pieces, 1)

board_state(b) == SerializePieces(b.pieces, 1) \o <<b.current_player>>

\* Board.serialize(store=True)
serialize(b) == [b EXCEPT !.board_states = Append(@, board_state(b))]

\* Board.__init__
NewBoard ==
    serialize([obj |-> 0,
               pieces |-> InitPieces,
               blocks |-> BlocksOf(InitPieces),
               c_players |-> 1,
               current_player |-> HUMAN_PLAYER,
               clicked_blocks |-> << >>,
               board_states |-> << >>,
               board_hist_mov |-> 0,
               game_over |-> FALSE,
               winner |-> "None"])

\* list.remove(x): the list without its first element equal to x.
RECURSIVE remove(_, _)
remove(list, x) ==
    IF list = << >> THEN << >>
    ELSE IF Head(list) = x THEN Tail(list)
    ELSE <<Head(list)>> \o remove(Tail(list), x)

\* Board.move raises when calculate_moves does (find_by_pos finds two
\* pieces on a square); it has changed nothing by then.
MoveRaises(b, start) ==
    b.blocks[start] # NoPiece /\ TwoPiecesOnOneSquare(b.pieces)

\* av_moves = [p.end_pos for p in piece.calculate_moves(self)], for the
\* piece of the start block.
av_moves(b, start) == EndPositions(calculate_moves(b.blocks[start], b.pieces))

\* Variant: the piece on the end block stays in self.pieces.
PlacePiece_keep(b, start, end) ==
    LET piece == b.blocks[start]
        moved == [piece EXCEPT !.ind_pos = end]
    IN  [b EXCEPT
           !.pieces = [i \in DOMAIN b.pieces |->
                         IF b.pieces[i] = piece THEN moved ELSE b.pieces[i]],
           !.blocks = [@ EXCEPT ![end] = moved, ![start] = NoPiece]]

\* Lines 305-314 of Board.move: the captured piece leaves self.pieces and
\* the moving piece changes block and square.
PlacePiece(b, start, end) ==
    LET piece == b.blocks[start]
        moved == [piece EXCEPT !.ind_pos = end]
        left == IF b.blocks[end] # NoPiece
                THEN remove(b.pieces, b.blocks[end])
                ELSE b.pieces
    IN  [b EXCEPT
           !.pieces = [i \in DOMAIN left |->
                         IF left[i] = piece THEN moved ELSE left[i]],
           !.blocks = [@ EXCEPT ![end] = moved, ![start] = NoPiece]]

\* Lines 316-317 of Board.move: clear_selections() and the turn.
EndMove(b) ==
    [b EXCEPT !.clicked_blocks = << >>,
              !.current_player = Players[b.c_players],
              !.c_players = IF b.c_players = 1 THEN 2 ELSE 1]

\* The pieces a Board holds as captured.  Board has no such list: lines
\* 304-306 of Board.move take the piece out of self.pieces and keep it
\* nowhere (Piece.move, which appends to board.captured_pieces, is not
\* called by Board.move, and Board defines no captured_pieces).
captured(b) == << >>

\* Board.move([blocks[start], blocks[end]]) when it does not raise, given
\* whether "blocks[1].pos in av_moves" holds.
MoveWith(b, start, end, in_av_moves) ==
    IF b.blocks[start] = NoPiece THEN b
    ELSE IF in_av_moves THEN EndMove(PlacePiece(b, start, end))
    ELSE EndMove(b)

move(b, start, end) == MoveWith(b, start, end, end \in av_moves(b, start))

\* ------------------------------------------------------------------------
\* Board.load_prev_state
\* ------------------------------------------------------------------------

\* The match statement on the kind letter; "None" stands for the default
\* case, which raises NotImplementedError.
KindName(c) ==
    CASE c = "K" -> "king" [] c = "Q" -> "queen" [] c = "R" -> "rook"
      [] c = "b" -> "bishop" [] c = "k" -> "knight" [] c = "P" -> "pawn"
      [] OTHER -> "None"

\* The loop "for i in range(len(state) // 4)" from record i on (i counts
\* from 0 as in the code), with the pieces appended so far.  The result is
\* the piece list when the loop ends and the exception that ended it.
RECURSIVE DecodeFrom(_, _, _)
DecodeFrom(state, i, pieces) ==
    IF i >= Len(state) \div 4 THEN [pieces |-> pieces, err |-> "none"]
    ELSE
    LET piece_repr == SubSeq(state, i * 4 + 1, i * 4 + 4)
        team == lower(piece_repr[1])
        name == KindName(piece_repr[2])
    IN  IF name = "None"
        THEN [pieces |-> pieces, err |-> "NotImplementedError"]
        ELSE IF ~(IsDigit(piece_repr[3]) /\ IsDigit(piece_repr[4]))
        THEN [pieces |-> pieces, err |-> "ValueError"]
        ELSE
        LET pos == <<int(piece_repr[3]), int(piece_repr[4])>>
        IN  IF PieceFactoryFails(pos)
            THEN [pieces |-> pieces, err |-> "AssertionError"]
            ELSE DecodeFrom(state, i + 1, Append(pieces, Piece(name, pos, team)))

\* Variant: past the oldest entry the counter starts again at 1.
NextHistMov_wrap(b) ==
    IF b.board_hist_mov + 1 > Len(b.board_states)
    THEN 1
    ELSE b.board_hist_mov + 1

\* board_hist_mov after "+= 1" and the cap at len(board_states).
NextHistMov(b) ==
    IF b.board_hist_mov + 1 >= Len(b.board_states)
    THEN Len(b.board_states)
    ELSE b.board_hist_mov + 1

\* The string load_prev_state decodes: its argument, or for None and ""
\* the entry board_states[-board_hist_mov].
StateToLoad(b, state) ==
    IF state = << >>
    THEN b.board_states[Len(b.board_states) - NextHistMov(b) + 1]
    ELSE state

\* The exception load_prev_state(state) ends with, "none" when it returns.
LoadError(b, state) == DecodeFrom(StateToLoad(b, state), 0, << >>).err

\* The board when load_prev_state(state) returns or raises.
load_prev_state(b, state) ==
    LET decoded == DecodeFrom(StateToLoad(b, state), 0, << >>)
    IN  [b EXCEPT !.board_hist_mov = NextHistMov(b),
                  !.pieces = decoded.pieces,
                  !.blocks = BlocksOf(decoded.pieces)]

\* ------------------------------------------------------------------------
\* Block.select_block
\* ------------------------------------------------------------------------

\* deque.append on board.clicked_blocks, a deque with maxlen 2.
ClickAppend(clicked_blocks, sq) ==
    IF Len(clicked_blocks) = 2
    THEN <<clicked_blocks[2], sq>>
    ELSE Append(clicked_blocks, sq)

\* Whether this click is the second selection, the one that stores a
\* snapshot and may move a piece.
SecondClick(b, sq) == ~b.game_over /\ Len(ClickAppend(b.clicked_blocks, sq)) = 2

\* Whether the second selection calls board.move: the start block holds a
\* piece and one of its moves ends on the block clicked.
ClickMoves(b, sq) ==
    LET clicked == ClickAppend(b.clicked_blocks, sq)
    IN  /\ SecondClick(b, sq)
        /\ b.blocks[clicked[1]] # NoPiece
        /\ clicked[2] \in av_moves(b, clicked[1])

\* Whether select_block raises: it calls calculate_moves on a board on
\* which find_by_pos finds two pieces on a square.
SelectRaises(b, sq) ==
    LET clicked == ClickAppend(b.clicked_blocks, sq)
    IN  /\ ~b.game_over
        /\ TwoPiecesOnOneSquare(b.pieces)
        /\ \/ Len(clicked) = 1 /\ b.blocks[sq] # NoPiece
           \/ Len(clicked) = 2 /\ b.blocks[clicked[1]] # NoPiece

\* The second selection: the snapshot, then the move if one of the start
\* piece's moves ends on the block clicked, then clicked_blocks.clear().
\* stored is the board after board.serialize().
SecondSelection(stored, raises, moves) ==
    IF raises THEN stored
    ELSE IF moves
    THEN [move(stored, stored.clicked_blocks[1], stored.clicked_blocks[2])
             EXCEPT !.clicked_blocks = << >>]
    ELSE [stored EXCEPT !.clicked_blocks = << >>]

\* select_block after board.clicked_blocks.append(self): selected is the
\* board then.
Selection(selected, sq, raises, moves) ==
    IF Len(selected.clicked_blocks) = 1 /\ selected.blocks[sq] # NoPiece
    THEN selected
    ELSE IF Len(selected.clicked_blocks) = 2
    THEN SecondSelection(serialize(selected), raises, moves)
    ELSE [selected EXCEPT !.clicked_blocks = << >>]

\* The board when block sq's select_block(board) returns; when it raises,
\* the board at the raise.  The clicked and poss_move flags of the blocks
\* only colour the drawing and are left out.
SelectBlockWith(b, sq, raises, moves) ==
    IF b.game_over THEN b
    ELSE Selection([b EXCEPT !.clicked_blocks = ClickAppend(@, sq)], sq,
                   raises, moves)

select_block(b, sq) ==
    SelectBlockWith(b, sq, SelectRaises(b, sq), ClickMoves(b, sq))

\* ------------------------------------------------------------------------
\* Board.score_board and bot.minimax
\* ------------------------------------------------------------------------

\* float("inf"), above every score score_board returns.
Inf == 1000000

PieceValue(name) ==
    CASE name = "king" -> 1000 [] name = "queen" -> 9 [] name = "rook" -> 5
      [] name = "bishop" -> 3 [] name = "knight" -> 3 [] name = "pawn" -> 1
      [] OTHER -> 0

\* The loop of score_board over self.pieces from piece i on; the maximizing
\* player is self.bot_player.
RECURSIVE ScoreLoop(_, _, _)
ScoreLoop(b, i, sums) ==
    IF i > Len(b.pieces) THEN sums
    ELSE
    LET piece == b.pieces[i]
        value == PieceValue(piece.name)
        n_moves == Len(calculate_moves(piece, b.pieces))
    IN  ScoreLoop(b, i + 1,
            IF piece.team = BOT_PLAYER
            THEN [sums EXCEPT !.player_score = @ + value,
                              !.player_valid_moves = @ + n_moves]
            ELSE [sums EXCEPT !.opponent_score = @ + value,
                              !.opponent_valid_moves = @ + n_moves])

\* Board.score_board(player): the argument is not read.
score_board(b, player) ==
    LET sums == ScoreLoop(b, 1, [player_score |-> 0, opponent_score |-> 0,
                                 player_valid_moves |-> 0,
                                 opponent_valid_moves |-> 0])
    IN  (sums.player_score - sums.opponent_score)
        + 2 * (sums.player_valid_moves - sums.opponent_valid_moves)

\* Board.get_pieces_for_player
get_pieces_for_player(b, player) ==
    SelectSeq(b.pieces, LAMBDA piece : piece.team = player)

\* One order in which list(set(available_moves)) can list the moves: the
\* move that ends on front first, the others in the order of the appends.
\* With front = NonePos it is the order of the appends.
ListOfSet(moves, front) ==
    SelectSeq(moves, LAMBDA m : m.end_pos = front)
    \o SelectSeq(moves, LAMBDA m : m.end_pos # front)

\* sorted(moves, key=lambda x: x.score, reverse=True): a stable sort, so
\* moves of equal score keep their order.
RECURSIVE sorted_moves(_)
sorted_moves(moves) ==
    IF moves = << >> THEN << >>
    ELSE LET top == CHOOSE v \in {moves[k].score : k \in DOMAIN moves} :
                        \A k \in DOMAIN moves : moves[k].score <= v
         IN  SelectSeq(moves, LAMBDA m : m.score = top)
             \o sorted_moves(SelectSeq(moves, LAMBDA m : m.score # top))

\* Python's None for best_move.
NoMove == Move(NoPiece, NonePos, NonePos, 0, FALSE, NoPiece)

\* The score of the terminal case of minimax; in a game that is over with
\* no winner recorded neither branch assigns score and the return raises
\* UnboundLocalError.
TerminalRaises(b) ==
    b.game_over /\ b.winner # HUMAN_PLAYER /\ b.winner # BOT_PLAYER

TerminalScore(b, player) ==
    IF b.game_over
    THEN IF b.winner = HUMAN_PLAYER THEN -Inf ELSE Inf
    ELSE score_board(b, player)

\* minimax(board, depth, player, total_explored_states, a, b): the tuple it
\* returns, and in err the exception that ended it.  front fixes the order
\* of list(set(...)) as in ListOfSet.  The two branches of the code differ
\* in the comparison and in the bound they move; run is the state of the
\* loops: the best score, piece and move, the count and the two bounds.
\* late counts, for the node and the nodes below it, the clones made and
\* calls begun for a move while a >= b held at its node.
RECURSIVE minimax(_, _, _, _, _, _, _)
RECURSIVE MovesLoop(_, _, _, _, _, _, _)
RECURSIVE PiecesLoop(_, _, _, _, _, _)

\* The recursive call on the clone after its move.
Recurse(new_board, depth, run) ==
    minimax(new_board, depth - 1, new_board.current_player, run.total,
            run.a, run.b, run.front)

\* Variant: the caller's object itself instead of a copy.
clone_same(b) == b

\* board.clone() is copy.deepcopy(self): a new object with a copy of every
\* field.  obj tells the objects of one chain of calls apart: the Board of
\* the caller has obj 0, its clone 1, the clone of the clone 2.
clone(b) == [b EXCEPT !.obj = @ + 1]

\* The board the caller holds once the call on new_board has returned:
\* what new_board has become if it is the caller's object, else untouched.
CallerBoard(b, child) == IF child.board.obj = b.obj THEN child.board ELSE b

\* The body of the loop over the moves up to the recursive call: the clone,
\* its move, the call.
Explore(b, depth, piece, mv, run) ==
    Recurse(move(clone(b), piece.ind_pos, mv.end_pos), depth, run)

\* The rest of the body: the best score, piece and move and the bound
\* after the call returned child.
Update(run, player, piece, mv, child) ==
    LET better == IF player = BOT_PLAYER
                  THEN child.score > run.score
                  ELSE child.score < run.score
        score == IF better THEN child.score ELSE run.score
    IN  [run EXCEPT
           !.score = score,
           !.piece = IF better THEN piece ELSE @,
           !.move = IF better THEN mv ELSE @,
           !.total = child.total,
           !.late = @ + child.late + (IF run.a >= run.b THEN 1 ELSE 0),
           !.board = CallerBoard(@, child),
           !.a = IF player = BOT_PLAYER /\ score > @ THEN score ELSE @,
           !.b = IF player # BOT_PLAYER /\ score < @ THEN score ELSE @]

\* Variant: the loop over the moves of a piece is left after its first move.
AfterMove_break(b, depth, player, piece, moves, k, run, after) == after

\* "if a >= b: break" leaves the loop over the moves of this piece.
AfterMove(b, depth, player, piece, moves, k, run, after) ==
    IF after.a >= after.b THEN after
    ELSE MovesLoop(b, depth, player, piece, moves, k + 1, after)

AfterChild(b, depth, player, piece, moves, k, run, child) ==
    IF child.err # "none"
    THEN [run EXCEPT !.err = child.err, !.board = CallerBoard(@, child)]
    ELSE AfterMove(b, depth, player, piece, moves, k, run,
                   Update(run, player, piece, moves[k], child))

MovesLoop(b, depth, player, piece, moves, k, run) ==
    IF k > Len(moves) \/ run.err # "none" THEN run
    ELSE AfterChild(b, depth, player, piece, moves, k, run,
                    Explore(run.board, depth, piece, moves[k], run))

PiecesLoop(b, depth, player, pieces, i, run) ==
    IF i > Len(pieces) \/ run.err # "none" THEN run
    ELSE PiecesLoop(b, depth, player, pieces, i + 1,
             MovesLoop(b, depth, player, pieces[i],
                       sorted_moves(ListOfSet(
                           calculate_moves(pieces[i], run.board.pieces),
                           run.front)),
                       1, run))

\* The tuple minimax returns, from the state of its loops.
Returned(run) ==
    [score |-> run.score, piece |-> run.piece, move |-> run.move,
     total |-> run.total, err |-> run.err, board |-> run.board,
     late |-> run.late]

minimax(b, depth, player, total_explored_states, a, bb, front) ==
    IF depth = 0 \/ b.game_over
    THEN [score |-> IF TerminalRaises(b) THEN 0 ELSE TerminalScore(b, player),
          piece |-> NoPiece, move |-> NoMove,
          total |-> total_explored_states + 1,
          err |-> IF TerminalRaises(b) THEN "UnboundLocalError" ELSE "none",
          board |-> b, late |-> 0]
    ELSE Returned(
           PiecesLoop(b, depth, player, get_pieces_for_player(b, player), 1,
               [score |-> IF player = BOT_PLAYER THEN -Inf ELSE Inf,
                piece |-> NoPiece, move |-> NoMove,
                total |-> total_explored_states + 1,
                a |-> a, b |-> bb, front |-> front, err |-> "none",
                board |-> b, late |-> 0]))

\* ------------------------------------------------------------------------
\* State
\* ------------------------------------------------------------------------

VARIABLES
    board,          \* the Board object
    pc,             \* where the handler of a mouse click in main.py stands
    err,            \* the exception the last call raised, or "none"
    last,           \* what the last step did
    applied,        \* Board.move calls on this Board that moved a piece
    king_taker,     \* the team of the first piece that took a king, or "None"
    made            \* the object the last call of a factory returned

vars == <<board, pc, err, last, applied, king_taker, made>>

\* king_taker after the piece on start has moved to end.
TakerAfter(b, taker, start, end) ==
    IF taker = "None" /\ b.blocks[end].name = "king"
    THEN b.blocks[start].team
    ELSE taker

Init ==
    /\ board = NewBoard
    /\ pc = "idle"
    /\ err = "none"
    /\ last = "new"
    /\ applied = 0
    /\ king_taker = "None"
    /\ made = NoPiece

\* ------------------------------------------------------------------------
\* Callers of the Board
\* ------------------------------------------------------------------------

StartSquares == {sq \in Squares : sq[1] <= MaxFile}

\* A caller of Board.move with two blocks of its choice.
BoardMove(start, end, in_av_moves) ==
    /\ pc = "idle"
    /\ board.blocks[start] # NoPiece
    /\ board' = MoveWith(board, start, end, in_av_moves)
    /\ err' = "none"
    /\ IF in_av_moves
       THEN /\ applied < MaxMoves
            /\ applied' = applied + 1
            /\ last' = "move_applied"
            /\ king_taker' = TakerAfter(board, king_taker, start, end)
       ELSE /\ last' = "move_rejected"
            /\ UNCHANGED <<applied, king_taker>>
    /\ UNCHANGED <<pc, made>>

\* The end blocks the caller tries for a start block: every block
\* av_moves names, and the start block itself (every block outside av_moves
\* is refused the same way).
EndsTried(start, ends) == ends \cup ({start} \ ends)

BoardMoves ==
    \E start \in {sq \in StartSquares : board.blocks[sq] # NoPiece} :
        /\ ~MoveRaises(board, start)
        /\ LET ends == av_moves(board, start)
           IN  \E end \in EndsTried(start, ends) :
                   BoardMove(start, end, end \in ends)

\* The same call on a board on which find_by_pos raises.
BoardMoveRaises ==
    /\ pc = "idle"
    /\ \E start \in StartSquares : MoveRaises(board, start)
    /\ err' = "ValueError"
    /\ last' = "move_raised"
    /\ UNCHANGED <<board, pc, applied, king_taker, made>>

\* board.load_prev_state(): main.py on K_LEFT.
LoadPrev ==
    /\ pc = "idle"
    /\ board' = load_prev_state(board, << >>)
    /\ err' = LoadError(board, << >>)
    /\ last' = "load"
    /\ UNCHANGED <<pc, applied, king_taker, made>>

\* ------------------------------------------------------------------------
\* The event loop of main.py
\* ------------------------------------------------------------------------

MAX_SEARCH_PLY == 1

\* What a click on block sq does on the human's turn, given whether
\* select_block raises and whether it moves a piece.
HumanClick(sq, second, raises, moves) ==
    /\ second => Len(board.board_states) < MaxHist
    /\ moves => applied + 2 <= MaxMoves
    /\ board' = SelectBlockWith(board, sq, raises, moves)
    /\ err' = IF raises THEN "ValueError" ELSE "none"
    /\ last' = IF raises THEN "click_raised"
               ELSE IF moves THEN "click_applied"
               ELSE IF second THEN "click_rejected"
               ELSE "click_first"
    /\ applied' = IF moves /\ ~raises THEN applied + 1 ELSE applied
    /\ king_taker' = IF moves /\ ~raises
                      THEN TakerAfter(board, king_taker,
                                      board.clicked_blocks[1], sq)
                      ELSE king_taker

\* The first "if" of the MOUSEBUTTONDOWN handler: on the human's turn the
\* block under the mouse is selected.  sq = NonePos is a click outside the
\* blocks, for which find_by_pos_mouse returns None.
MouseButtonDown(sq) ==
    /\ pc = "idle"
    /\ pc' = "bot"
    /\ UNCHANGED made
    /\ IF board.current_player = HUMAN_PLAYER /\ sq # NonePos
       THEN HumanClick(sq, SecondClick(board, sq), SelectRaises(board, sq),
                       ClickMoves(board, sq))
       ELSE /\ last' = "click_none"
            /\ UNCHANGED <<board, err, applied, king_taker>>

\* The end squares list(set(...)) may list first for some piece of the bot.
Fronts(b) ==
    {NonePos} \cup
    UNION {EndPositions(calculate_moves(b.pieces[i], b.pieces)) :
             i \in {k \in DOMAIN b.pieces : b.pieces[k].team = BOT_PLAYER}}

\* What the handler does with the tuple minimax returned.
BotMove(found) ==
    IF found.err # "none"
    THEN /\ board' = found.board
         /\ err' = found.err
         /\ last' = "bot_raised"
         /\ UNCHANGED <<applied, king_taker>>
    ELSE IF found.score # Inf /\ found.move # NoMove
    THEN /\ board' = move(found.board, found.move.start_pos,
                          found.move.end_pos)
         /\ err' = "none"
         /\ last' = "bot_applied"
         /\ applied' = applied + 1
         /\ king_taker' = TakerAfter(board, king_taker, found.move.start_pos,
                                     found.move.end_pos)
    ELSE /\ board' = found.board
         /\ err' = "none"
         /\ last' = "bot_none"
         /\ UNCHANGED <<applied, king_taker>>

\* The second "if" of the handler: on the bot's turn minimax chooses a move
\* and board.move makes it.
BotTurn ==
    /\ pc = "bot"
    /\ pc' = "idle"
    /\ UNCHANGED made
    /\ IF board.current_player = BOT_PLAYER
       THEN \E front \in Fronts(board) :
              BotMove(minimax(board, MAX_SEARCH_PLY, BOT_PLAYER, 0,
                              -Inf, Inf, front))
       ELSE /\ last' = "bot_skipped"
            /\ UNCHANGED <<board, err, applied, king_taker>>

\* K_r: board = Board(...)
KeyR ==
    /\ pc = "idle"
    /\ board' = NewBoard
    /\ err' = "none"
    /\ last' = "new"
    /\ applied' = 0
    /\ king_taker' = "None"
    /\ UNCHANGED <<pc, made>>

\* ------------------------------------------------------------------------
\* Callers of load_prev_state with a state string
\* ------------------------------------------------------------------------

\* The records the state strings are made of: pieces of both teams, the
\* two lower-case kind letters, two records on one square, and a record
\* whose kind letter is none of K, Q, R, b, k, P.
Records ==
    { <<"W", "K", "0", "0">>, <<"B", "k", "0", "1">>, <<"W", "b", "1", "1">>,
      <<"B", "P", "1", "0">>, <<"W", "Q", "0", "1">>, <<"W", "X", "1", "1">> }

RECURSIVE Concat(_)
Concat(seqs) == IF seqs = << >> THEN << >> ELSE Head(seqs) \o Concat(Tail(seqs))

\* Up to MaxRecords records and the character of the side to move.
StateStrings ==
    {Concat(recs) \o <<"w">> :
        recs \in UNION {[1..n -> Records] : n \in 0..MaxRecords}}

\* board.load_prev_state(state), as visualize_search_space.py calls it with
\* a line of the log, on a board no move has been made on.
LoadState(state) ==
    /\ pc = "idle"
    /\ applied = 0
    /\ board' = load_prev_state(board, state)
    /\ err' = LoadError(board, state)
    /\ last' = "load_state"
    /\ UNCHANGED <<pc, applied, king_taker, made>>

\* board.load_prev_state(board.serialize(store=False)): the position is
\* encoded and decoded again.
ReloadCurrent ==
    /\ pc = "idle"
    /\ board' = load_prev_state(board, board_state(board))
    /\ err' = LoadError(board, board_state(board))
    /\ last' = "reload"
    /\ UNCHANGED <<pc, applied, king_taker, made>>

\* ------------------------------------------------------------------------
\* Callers of the factories
\* ------------------------------------------------------------------------

Coords == -1..MaxCoord

Positions == Coords \X Coords

\* made = piece_factory(name, pos, "w"), as the tests call it; when the
\* call raises nothing is assigned.
MakePiece(name, pos) ==
    /\ pc = "idle"
    /\ made' = IF PieceFactoryFails(pos) THEN made ELSE Piece(name, pos, "w")
    /\ err' = IF PieceFactoryFails(pos) THEN "AssertionError" ELSE "none"
    /\ last' = "piece_factory"
    /\ UNCHANGED <<board, pc, applied, king_taker>>

\* made = move_factory(made, start_pos, end_pos, 0, False, None) for the
\* knight made before, as in the tests.
MakeMove(start_pos, end_pos) ==
    /\ pc = "idle"
    /\ made' = IF MoveFactoryFails(start_pos, end_pos) THEN made
               ELSE Move(made, start_pos, end_pos, 0, FALSE, NoPiece)
    /\ err' = IF MoveFactoryFails(start_pos, end_pos) THEN "AssertionError"
              ELSE "none"
    /\ last' = "move_factory"
    /\ UNCHANGED <<board, pc, applied, king_taker>>

\* The knights the tests make moves for.
Knights == [name : {"knight"}, team : {"w"}, ind_pos : Squares]

\* The start positions tried for a piece: its square and every position
\* outside the grid.
MoveStarts(piece) == {piece.ind_pos} \cup (Positions \ Squares)

MakeMoves ==
    /\ made \in Knights
    /\ \E start_pos \in MoveStarts(made), end_pos \in Positions :
          MakeMove(start_pos, end_pos)

\* ------------------------------------------------------------------------
\* Callers of minimax
\* ------------------------------------------------------------------------

\* The caller's board and the exception once minimax has returned found.
Searched(found) ==
    /\ pc = "idle"
    /\ applied <= MaxSearchMoves
    /\ board' = found.board
    /\ err' = found.err
    /\ last' = "search"
    /\ UNCHANGED <<pc, applied, king_taker, made>>

\* minimax(board, depth, player), as main.py calls it for the bot.
Search(depth, player) ==
    \E front \in Fronts(board) :
        Searched(minimax(board, depth, player, 0, -Inf, Inf, front))

\* ------------------------------------------------------------------------
\* Callers of calculate_moves
\* ------------------------------------------------------------------------

\* The records of the piece whose moves are asked for: every kind of both
\* teams on every square.
SubjectRecords ==
    {<<t, k, r, f>> : t \in {"W", "B"},
                      k \in {"K", "Q", "R", "b", "k", "P"},
                      r \in {"0", "1", "2", "3", "4", "5", "6", "7"},
                      f \in {"0", "1", "2", "3", "4", "5", "6", "7"}}

\* The records of the other pieces: pieces of both teams on the squares
\* (2,3), (3,3), (4,3) and (5,3).
BlockerRecords ==
    { <<"W", "P", "2", "3">>, <<"B", "k", "2", "3">>,
      <<"W", "k", "3", "3">>, <<"B", "P", "3", "3">>,
      <<"W", "R", "4", "3">>, <<"B", "P", "4", "3">>,
      <<"W", "K", "5", "3">>, <<"B", "b", "5", "3">> }

\* A piece, up to MaxBlockers other pieces and the character of the side
\* to move.
PositionStrings ==
    {s \o Concat(recs) \o <<"w">> :
        s \in SubjectRecords,
        recs \in UNION {[1..n -> BlockerRecords] : n \in 0..MaxBlockers}}

\* BOARD.load_prev_state(state) on the board just constructed, as
\* visualize_search_space.py does at its start.
LoadPosition ==
    /\ last = "new"
    /\ \E state \in PositionStrings : LoadState(state)

\* Whether calculate_moves calls board.find_by_pos at all: a pawn none of
\* whose three end positions is on the board never does.
CallsFindByPos(self) ==
    \/ self.name # "pawn"
    \/ \E d \in 1..3 :
          check_position_bounds(
              <<self.ind_pos[1] + PawnDirections(self)[d][1],
                self.ind_pos[2] + PawnDirections(self)[d][2]>>) # NonePos

\* piece.calculate_moves(board) for the i-th piece of the board: made is
\* the piece and the list returned.  The call raises when find_by_pos does.
CalculateMoves(i) ==
    /\ pc = "idle"
    /\ i \in DOMAIN board.pieces
    /\ IF /\ TwoPiecesOnOneSquare(board.pieces)
          /\ CallsFindByPos(board.pieces[i])
       THEN /\ err' = "ValueError"
            /\ last' = "calculate_raised"
            /\ UNCHANGED made
       ELSE /\ made' = [piece |-> board.pieces[i],
                        moves |-> calculate_moves(board.pieces[i],
                                                  board.pieces)]
            /\ err' = "none"
            /\ last' = "calculate_moves"
    /\ UNCHANGED <<board, pc, applied, king_taker>>

\* ------------------------------------------------------------------------
\* Specifications
\* ------------------------------------------------------------------------

\* Callers of Board.move and Board.load_prev_state.
Next ==
    \/ BoardMoves
    \/ LoadPrev

Spec == Init /\ [][Next]_vars

\* The event loop of main.py.
NextMain ==
    \/ \E sq \in StartSquares \cup {NonePos} : MouseButtonDown(sq)
    \/ BotTurn
    \/ LoadPrev
    \/ KeyR

SpecMain == Init /\ [][NextMain]_vars

\* Callers that also hand state strings to load_prev_state.
NextCodec ==
    \/ BoardMoves
    \/ BoardMoveRaises
    \/ LoadPrev
    \/ \E state \in StateStrings : LoadState(state)
    \/ ReloadCurrent

SpecCodec == Init /\ [][NextCodec]_vars

\* Callers of Board.move and of minimax, on the starting position and on
\* positions loaded from state strings.
NextSearch ==
    \/ BoardMoves
    \/ \E state \in StateStrings : LoadState(state)
    \/ \E depth \in 1..MaxDepth, player \in {BOT_PLAYER, HUMAN_PLAYER} :
          Search(depth, player)

SpecSearch == Init /\ [][NextSearch]_vars

\* Callers of the factories.
NextFactory ==
    \/ \E name \in {"pawn", "knight"}, pos \in Positions : MakePiece(name, pos)
    \/ MakeMoves

SpecFactory == Init /\ [][NextFactory]_vars

\* Callers of calculate_moves, on the starting position and on positions
\* loaded from state strings.
NextMoves ==
    \/ LoadPosition
    \/ \E i \in 1..32 : CalculateMoves(i)

SpecMoves == Init /\ [][NextMoves]_vars

\* ------------------------------------------------------------------------
\* Properties
\* ------------------------------------------------------------------------

\* The multiset of the (kind, team, square) triples of a piece list.
PieceBag(pieces) ==
    [p \in {pieces[i] : i \in DOMAIN pieces} |->
        Cardinality({i \in DOMAIN pieces : pieces[i] = p})]

\* C1: current_player changes in a step exactly when the step is a Board.move
\* call that moved a piece, so the side to move alternates between
\* successive applied moves.
C1_TurnFlipsOncePerAppliedMove ==
    [][(board'.current_player # board.current_player)
          <=> (last' = "move_applied")]_vars

\* C2: a Board.move call whose end block is not among the piece's
\* destinations changes neither the pieces, nor their squares, nor
\* current_player, game_over, winner or board_states.
C2_RejectedMoveIsNoOp ==
    [][(last' = "move_rejected")
          => /\ board'.pieces = board.pieces
             /\ board'.blocks = board.blocks
             /\ board'.current_player = board.current_player
             /\ board'.game_over = board.game_over
             /\ board'.winner = board.winner
             /\ board'.board_states = board.board_states]_vars

\* C3: game_over holds exactly when an applied move has taken a king, and
\* winner is the team of the piece that took it (unset before).
C3_GameOverIffKingTaken ==
    /\ board.game_over <=> (king_taker # "None")
    /\ board.winner = king_taker

\* C4: after any sequence of Board.move calls from the starting position no
\* two pieces stand on one square, so find_by_pos does not raise.
C4_NoTwoPiecesOnOneSquare ==
    /\ ~TwoPiecesOnOneSquare(board.pieces)
    /\ \A sq \in StartSquares : ~MoveRaises(board, sq)

\* A capture has been applied.
C4_Witness == last = "move_applied" /\ Len(board.pieces) < 32

\* C5: every piece stands on a square of the 8x8 grid, and every Move that
\* calculate_moves returns for any piece starts and ends on the grid.
C5_SquaresInBounds ==
    \A i \in DOMAIN board.pieces :
        /\ board.pieces[i].ind_pos \in Squares
        /\ LET moves == calculate_moves(board.pieces[i], board.pieces)
           IN  \A k \in DOMAIN moves :
                   /\ moves[k].start_pos \in Squares
                   /\ moves[k].end_pos \in Squares

\* A piece that has moved to the edge file has moves there.
C5_Witness ==
    /\ last = "move_applied"
    /\ \E i \in DOMAIN board.pieces :
          /\ board.pieces[i].name = "knight"
          /\ board.pieces[i].ind_pos[1] = 0
          /\ calculate_moves(board.pieces[i], board.pieces) # << >>

\* C6: the live pieces and the captured pieces together are the 32 pieces
\* of the starting position.
C6_LivePlusCapturedIs32 ==
    Len(board.pieces) + Len(captured(board)) = 32

\* C7: load_prev_state of the string serialize builds for the position
\* returns with the multiset of (kind, team, square) of the position.
C7_RoundTripPieces ==
    [][last' = "reload"
          => /\ err' = "none"
             /\ PieceBag(board'.pieces) = PieceBag(board.pieces)]_vars

\* A position after a capture has been encoded and decoded.
C7_Witness ==
    /\ last = "reload"
    /\ applied > 0
    /\ Len(board.pieces) < 32

\* C8: after load_prev_state() has loaded an entry of board_states, the
\* string serialize builds is that entry, side to move included.
C8_HistoryRoundTrip ==
    (last = "load" /\ err = "none")
        => board_state(board)
             = board.board_states[Len(board.board_states)
                                    - board.board_hist_mov + 1]

\* C9: a load_prev_state call that ends with NotImplementedError leaves
\* pieces, blocks and board_hist_mov as they were.
C9_FailedLoadChangesNothing ==
    [][(last' = "load_state" /\ err' = "NotImplementedError")
          => /\ board'.pieces = board.pieces
             /\ board'.blocks = board.blocks
             /\ board'.board_hist_mov = board.board_hist_mov]_vars

\* C10: a step of the event loop that moves a piece, the human's or the
\* bot's, appends to board_states the string of the position after the
\* move, and a refused second click appends nothing.
C10_SnapshotPerAppliedMove ==
    [][/\ (applied' = applied + 1)
            => board'.board_states
                 = Append(board.board_states, board_state(board'))
       /\ (last' = "click_rejected")
            => board'.board_states = board.board_states]_vars

\* The search without pruning: the same pieces and moves in the same
\* order, every move explored, the first best move kept.  best.total counts
\* the nodes explored, the root included, and is never 0.
RECURSIVE Exhaustive(_, _, _, _, _)
RECURSIVE ExhaustiveMoves(_, _, _, _, _, _, _, _)
RECURSIVE ExhaustivePieces(_, _, _, _, _, _, _)

ExhaustiveChild(new_board, depth, total, front) ==
    Exhaustive(new_board, depth - 1, new_board.current_player, total, front)

ExhaustiveBetter(player, mv, best, child) ==
    IF \/ player = BOT_PLAYER /\ child.score > best.score
       \/ player # BOT_PLAYER /\ child.score < best.score
    THEN [score |-> child.score, move |-> mv, total |-> child.total]
    ELSE [best EXCEPT !.total = child.total]

ExhaustiveMoves(b, depth, player, piece, moves, k, front, best) ==
    IF k > Len(moves) \/ best.total = 0 THEN best
    ELSE ExhaustiveMoves(b, depth, player, piece, moves, k + 1, front,
             ExhaustiveBetter(player, moves[k], best,
                 ExhaustiveChild(move(b, piece.ind_pos, moves[k].end_pos),
                                 depth, best.total, front)))

ExhaustivePieces(b, depth, player, pieces, i, front, best) ==
    IF i > Len(pieces) \/ best.total = 0 THEN best
    ELSE ExhaustivePieces(b, depth, player, pieces, i + 1, front,
             ExhaustiveMoves(b, depth, player, pieces[i],
                 sorted_moves(ListOfSet(
                     calculate_moves(pieces[i], b.pieces), front)),
                 1, front, best))

Exhaustive(b, depth, player, total, front) ==
    IF depth = 0 \/ b.game_over
    THEN [score |-> TerminalScore(b, player), move |-> NoMove,
          total |-> total + 1]
    ELSE ExhaustivePieces(b, depth, player,
             get_pieces_for_player(b, player), 1, front,
             [score |-> IF player = BOT_PLAYER THEN -Inf ELSE Inf,
              move |-> NoMove, total |-> total + 1])

\* The calls of minimax a caller can make on the board.
SearchCalls ==
    {<<depth, player, front>> :
        depth \in 1..MaxDepth, player \in {BOT_PLAYER, HUMAN_PLAYER},
        front \in Fronts(board)}

SameAsExhaustive(found, full) ==
    found.err = "none" => found.score = full.score /\ found.move = full.move

\* C11: on every position a caller searches, minimax with pruning returns
\* the score and the move of the search without pruning, for each depth,
\* each player and each order of the moves.
C11_PruningKeepsResult ==
    applied <= MaxSearchMoves =>
        \A call \in SearchCalls :
            SameAsExhaustive(
                minimax(board, call[1], call[2], 0, -Inf, Inf, call[3]),
                Exhaustive(board, call[1], call[2], 0, call[3]))

\* A search has returned on a position where pruning left nodes out.
C11_Witness ==
    /\ last = "search"
    /\ \E call \in SearchCalls :
          minimax(board, call[1], call[2], 0, -Inf, Inf, call[3]).total
            < Exhaustive(board, call[1], call[2], 0, call[3]).total

\* C12: when a call of minimax returns, the board of the caller is what it
\* was before the call: pieces and their squares, blocks, current_player,
\* game_over, winner and board_states.
C12_SearchLeavesBoard ==
    [][last' = "search" => board' = board]_vars

\* A search of depth MaxDepth that explored moves has returned.
C12_Witness ==
    /\ last = "search"
    /\ minimax(board, MaxDepth, BOT_PLAYER, 0, -Inf, Inf, NonePos).total > 2

\* The material and the number of moves of a team's pieces.
RECURSIVE SumOfPieces(_, _, _, _)
SumOfPieces(b, team, i, moves) ==
    IF i > Len(b.pieces) THEN 0
    ELSE (IF b.pieces[i].team # team THEN 0
          ELSE IF moves
          THEN Len(calculate_moves(b.pieces[i], b.pieces))
          ELSE PieceValue(b.pieces[i].name))
         + SumOfPieces(b, team, i + 1, moves)

Opponent(team) == IF team = "w" THEN "b" ELSE "w"

ScoreFor(b, team) ==
    (SumOfPieces(b, team, 1, FALSE) - SumOfPieces(b, Opponent(team), 1, FALSE))
    + 2 * (SumOfPieces(b, team, 1, TRUE)
           - SumOfPieces(b, Opponent(team), 1, TRUE))

\* C13: score_board(team) is the material of team minus that of its
\* opponent plus twice the difference of their move counts, so the score
\* for white is the negation of the score for black.
C13_ScoreFromArgumentsPerspective ==
    /\ \A team \in {"w", "b"} : score_board(board, team) = ScoreFor(board, team)
    /\ score_board(board, "w") = -score_board(board, "b")

\* C14: a call of PieceFactory or MoveFactory with a coordinate outside
\* 0..7 ends with AssertionError and returns nothing, and a call with every
\* coordinate in 0..7 returns the object with the coordinates given.
C14_FactoriesAssertBounds ==
    /\ \A pos \in Positions : PieceFactoryFails(pos) <=> pos \notin Squares
    /\ made \in Knights =>
          \A start_pos \in MoveStarts(made), end_pos \in Positions :
              MoveFactoryFails(start_pos, end_pos)
                <=> (start_pos \notin Squares \/ end_pos \notin Squares)
    /\ (last \in {"piece_factory", "move_factory"} /\ err = "none")
          => IF last = "piece_factory"
             THEN made.ind_pos \in Squares
             ELSE made.start_pos \in Squares /\ made.end_pos \in Squares

\* A call with a coordinate outside the grid has failed after a piece was
\* made.
C14_Witness ==
    /\ last = "move_factory"
    /\ err = "AssertionError"
    /\ made.name = "knight"

\* The kind letters of the records.
KindLetter(name) ==
    CASE name = "king" -> "K" [] name = "queen" -> "Q" [] name = "rook" -> "R"
      [] name = "bishop" -> "b" [] name = "knight" -> "k" [] OTHER -> "P"

\* The string serialize builds has one record of 4 characters per piece,
\* in the order of the pieces, and then the side to move; a record is the
\* team letter given by letter, the kind letter and the two coordinates
\* as digits 0-7.
RecordsAsStated(b, letter) ==
    LET state == board_state(b)
    IN  /\ Len(state) = 4 * Len(b.pieces) + 1
        /\ state[Len(state)] = b.current_player
        /\ \A i \in DOMAIN b.pieces :
              LET piece == b.pieces[i]
              IN  /\ state[4 * i - 3] = letter[piece.team]
                  /\ state[4 * i - 2] = KindLetter(piece.name)
                  /\ piece.ind_pos \in Squares
                  /\ state[4 * i - 1] = Digits[piece.ind_pos[1] + 1]
                  /\ state[4 * i] = Digits[piece.ind_pos[2] + 1]

\* C15 as stated: the team letter is in upper case for one team and in
\* lower case for the other.
C15_TeamLetterByCase ==
    \/ RecordsAsStated(board, [w |-> "W", b |-> "b"])
    \/ RecordsAsStated(board, [w |-> "w", b |-> "B"])

\* C15: serialize writes one 4-character record per piece in the order of
\* the pieces, then the side to move; the team letter is W for white and B
\* for black, both in upper case, the kind letter is K, Q, R, b, k or P and
\* the coordinates are single digits 0-7.
C15_RecordsWithUpperCaseTeam ==
    RecordsAsStated(board, [w |-> "W", b |-> "B"])

\* A position of one piece, after a capture on a loaded position.
C15_Witness ==
    /\ last = "move_applied"
    /\ Len(board.pieces) = 1

\* The direction vectors of a sliding piece.
SlidingDirections(name) ==
    CASE name = "queen" -> QueenDirections
      [] name = "rook" -> RookDirections
      [] name = "bishop" -> BishopDirections

\* The squares a piece reaches along dir from step i on: up to the first
\* occupied square, that square included only when it holds an enemy.
RECURSIVE SlideReach(_, _, _, _)
SlideReach(self, pieces, dir, i) ==
    LET sq == <<self.ind_pos[1] + i * dir[1], self.ind_pos[2] + i * dir[2]>>
        on_sq == find_by_pos(pieces, sq)
    IN  IF i > 7 \/ sq \notin Squares THEN {}
        ELSE IF on_sq = NoPiece
        THEN {sq} \cup SlideReach(self, pieces, dir, i + 1)
        ELSE IF on_sq.team # self.team THEN {sq}
        ELSE {}

SlideSquares(self, pieces) ==
    UNION {SlideReach(self, pieces, SlidingDirections(self.name)[d], 1) :
             d \in DOMAIN SlidingDirections(self.name)}

\* C16: the moves calculate_moves returns for a queen, a rook or a bishop
\* end on exactly the squares reached by sliding 1 to 7 steps along each
\* of its directions up to the first occupied square, that square included
\* only when it holds an enemy piece, one move per square; a rook alone on
\* the board has 14 moves.
C16_SlidersReachFirstOccupied ==
    (last = "calculate_moves" /\ made.piece.name \in {"queen", "rook", "bishop"})
    => /\ EndPositions(made.moves) = SlideSquares(made.piece, board.pieces)
       /\ Len(made.moves) = Cardinality(SlideSquares(made.piece, board.pieces))
       /\ (made.piece.name = "rook" /\ Len(board.pieces) = 1
           => Len(made.moves) = 14)

\* The square n steps ahead of a pawn, in its team's direction, and its two
\* forward-diagonal squares.
PawnAhead(self, n) == <<self.ind_pos[1] + n * PawnDir(self), self.ind_pos[2]>>

PawnDiagonals(self) ==
    { <<self.ind_pos[1] + PawnDir(self), self.ind_pos[2] + 1>>,
      <<self.ind_pos[1] + PawnDir(self), self.ind_pos[2] - 1>> }

\* The single-step moves of a pawn as stated: one step forward onto an
\* empty square of the board, one step diagonally forward onto an enemy.
PawnSingleSteps(self, pieces) ==
    {sq \in {PawnAhead(self, 1)} \cap Squares :
        find_by_pos(pieces, sq) = NoPiece}
    \cup
    {sq \in PawnDiagonals(self) \cap Squares :
        /\ find_by_pos(pieces, sq) # NoPiece
        /\ find_by_pos(pieces, sq).team # self.team}

\* C17: the single-step moves calculate_moves returns for a pawn, of either
\* team and on any rank, end on exactly the one-step forward square when
\* it is on the board and empty and on each forward-diagonal square when
\* it is on the board and holds an enemy piece, whatever stands on the
\* other squares ahead.
C17_PawnSingleSteps ==
    (last = "calculate_moves" /\ made.piece.name = "pawn")
    => {e \in EndPositions(made.moves) : e # PawnAhead(made.piece, 2)}
       = PawnSingleSteps(made.piece, board.pieces)

\* The rank a team's pawns start on: init_positions lists the pawns on
\* rows 1 and 6, the first half of them white.
HomeRank(team) == IF team = "w" THEN 1 ELSE 6

\* What C18 states of a pawn and the end squares of its moves.
TwoStepAsStated(self, pieces, ends) ==
    LET one == PawnAhead(self, 1)
        two == PawnAhead(self, 2)
    IN  /\ ( /\ self.ind_pos[1] = HomeRank(self.team)
             /\ find_by_pos(pieces, one) = NoPiece
             /\ find_by_pos(pieces, two) = NoPiece )
           => (one \in ends /\ two \in ends)
        /\ find_by_pos(pieces, one) # NoPiece => two \notin ends
        /\ self.ind_pos[1] # HomeRank(self.team) => two \notin ends

\* C18: a pawn on its team's home rank with both squares ahead empty is
\* offered the one-step and the two-step forward move; with a piece of
\* either team on the one-step square the two-step move is not offered;
\* and no pawn off its team's home rank is offered a two-step move.
C18_PawnTwoStep ==
    (last = "calculate_moves" /\ made.piece.name = "pawn")
    => TwoStepAsStated(made.piece, board.pieces, EndPositions(made.moves))

\* A pawn on its home rank has been offered both forward moves while
\* another piece stood on the board.
C18_Witness ==
    /\ last = "calculate_moves"
    /\ made.piece.name = "pawn"
    /\ made.piece.ind_pos[1] = HomeRank(made.piece.team)
    /\ Len(board.pieces) > 1
    /\ {PawnAhead(made.piece, 1), PawnAhead(made.piece, 2)}
       \subseteq EndPositions(made.moves)

\* The 8 knight offsets.
KnightOffsets ==
    {o \in (-2..2) \X (-2..2) :
        {o[1] * o[1], o[2] * o[2]} = {1, 4}}

\* The targets of the offsets that are on the board and hold no piece of
\* the knight's team.
KnightSquares(self, pieces) ==
    {sq \in {<<self.ind_pos[1] + o[1], self.ind_pos[2] + o[2]>> :
                o \in KnightOffsets} \cap Squares :
        \/ find_by_pos(pieces, sq) = NoPiece
        \/ find_by_pos(pieces, sq).team # self.team}

\* C19: the moves calculate_moves returns for a knight end on exactly the
\* targets of the 8 knight offsets that are on the board and hold no piece
\* of its team, one move per square: 8 moves from (3,3) and 2 from (0,0)
\* when the knight is alone, and on the starting position the two forward
\* jumps for the white knight init_positions lists at (0,1).
C19_KnightMoves ==
    (last = "calculate_moves" /\ made.piece.name = "knight")
    => /\ EndPositions(made.moves) = KnightSquares(made.piece, board.pieces)
       /\ Len(made.moves) = Cardinality(KnightSquares(made.piece, board.pieces))
       /\ (Len(board.pieces) = 1 /\ made.piece.ind_pos = <<3, 3>>
           => Len(made.moves) = 8)
       /\ (Len(board.pieces) = 1 /\ made.piece.ind_pos = <<0, 0>>
           => Len(made.moves) = 2)
       /\ ( /\ board.pieces = InitPieces
            /\ made.piece = Piece("knight", Placed(<<0, 1>>), "w") )
          => /\ Len(made.moves) = 2
             /\ EndPositions(made.moves) = {Placed(<<2, 0>>), Placed(<<2, 2>>)}

\* The moves of the white knight of (0,1) have been asked for on the
\* starting position.
C19_Witness ==
    /\ last = "calculate_moves"
    /\ board.pieces = InitPieces
    /\ made.piece = Piece("knight", Placed(<<0, 1>>), "w")
    /\ Len(made.moves) = 2

\* What C20 states of one move of a piece.
MoveSound(self, pieces, m) ==
    LET on_end == find_by_pos(pieces, m.end_pos)
    IN  /\ m.end_pos # self.ind_pos
        /\ on_end = NoPiece \/ on_end.team # self.team
        /\ m.is_capture <=> (on_end # NoPiece /\ on_end.team # self.team)
        /\ m.is_capture => m.captured_piece = on_end

MovesSound(self, pieces, moves) ==
    \A k \in DOMAIN moves : MoveSound(self, pieces, moves[k])

\* C20: in every position, for every piece of the board, no move that
\* calculate_moves returns ends on a square held by a piece of the mover's
\* team or on the mover's own square, and a move has is_capture exactly
\* when its end square holds an enemy piece, captured_piece being that
\* piece.
C20_MovesAvoidOwnPieces ==
    ~TwoPiecesOnOneSquare(board.pieces)
    => \A i \in DOMAIN board.pieces :
          MovesSound(board.pieces[i], board.pieces,
                     calculate_moves(board.pieces[i], board.pieces))

\* A list with a capture and a quiet move has been returned.
C20_Witness ==
    /\ last = "calculate_moves"
    /\ \E k \in DOMAIN made.moves : made.moves[k].is_capture
    /\ \E k \in DOMAIN made.moves : ~made.moves[k].is_capture

\* C21: at a node of the search, once a >= b holds no further move of the
\* node is explored: no clone is made and no call begun for a remaining
\* move of the piece at hand or of a later piece of the player to move.
C21_NoMoveExploredAfterCutoff ==
    applied <= MaxSearchMoves =>
        \A call \in SearchCalls :
            minimax(board, call[1], call[2], 0, -Inf, Inf, call[3]).late = 0

\* C22: at a terminal state of the search minimax returns a defined
\* score: on a position whose game is over, a king having been taken, it
\* is +infinity when the bot, the maximizing team, took it and -infinity
\* when the human did, and no exception ends the call; with depth 0 on a
\* position whose game is not over it is the score of score_board.
C22_TerminalScoreDefined ==
    /\ king_taker = "None" =>
          \A player \in {BOT_PLAYER, HUMAN_PLAYER} :
              LET found == minimax(board, 0, player, 0, -Inf, Inf, NonePos)
              IN  /\ found.err = "none"
                  /\ found.score = score_board(board, player)
    /\ king_taker # "None" =>
          \A call \in SearchCalls :
              LET found == minimax(board, call[1], call[2], 0, -Inf, Inf,
                                   call[3])
              IN  /\ found.err = "none"
                  /\ found.score = IF king_taker = BOT_PLAYER
                                   THEN Inf ELSE -Inf

\* The score, the piece and the move of the tuple minimax returns.
Chosen(found) == <<found.score, found.piece, found.move>>

\* C23: two calls of minimax on the same position with the same depth and
\* player return the same score, piece and move, whatever order
\* list(set(...)) lists the moves in: the choice is that of the call in
\* which the moves stand in the order of their appends.
C23_SearchDeterministic ==
    applied <= MaxSearchMoves =>
        \A call \in SearchCalls :
            Chosen(minimax(board, call[1], call[2], 0, -Inf, Inf, call[3]))
            = Chosen(minimax(board, call[1], call[2], 0, -Inf, Inf, NonePos))

\* Every capture of the list captures scores above every quiet move of the
\* list quiets.
CapturesAbove(captures, quiets) ==
    \A k \in DOMAIN captures, n \in DOMAIN quiets :
        (captures[k].is_capture /\ ~quiets[n].is_capture)
        => captures[k].score > quiets[n].score

\* C24 as stated: in every position every capture calculate_moves produces
\* scores strictly above every quiet move it produces for any piece of the
\* position, of whatever kind.
C24_CapturesAboveAllQuietMoves ==
    ~TwoPiecesOnOneSquare(board.pieces)
    => \A i, j \in DOMAIN board.pieces :
          CapturesAbove(calculate_moves(board.pieces[i], board.pieces),
                        calculate_moves(board.pieces[j], board.pieces))

\* C24: in every position every capture calculate_moves produces for a
\* piece scores strictly above every quiet move it produces for the same
\* piece.
C24_CapturesAboveOwnQuietMoves ==
    ~TwoPiecesOnOneSquare(board.pieces)
    => \A i \in DOMAIN board.pieces :
          CapturesAbove(calculate_moves(board.pieces[i], board.pieces),
                        calculate_moves(board.pieces[i], board.pieces))

\* The moves of a knight that can capture or move quietly have been
\* returned on a position where the other piece has quiet moves too.
C24_Witness ==
    /\ last = "calculate_moves"
    /\ made.piece.name = "knight"
    /\ \E k, n \in DOMAIN made.moves :
          made.moves[k].is_capture /\ ~made.moves[n].is_capture
    /\ \E j \in DOMAIN board.pieces :
          /\ board.pieces[j] # made.piece
          /\ calculate_moves(board.pieces[j], board.pieces) # << >>

\* The pieces of board "after" that do not stand so on board "before":
\* after an applied move, the piece that moved.
Movers(before, after) ==
    {after.pieces[k] : k \in DOMAIN after.pieces}
    \ {before.pieces[k] : k \in DOMAIN before.pieces}

\* C25: in every step of the event loop that moves a piece, by the human's
\* second selection or by the bot, the piece that moves is of the team
\* current_player named before the step.
C25_MoverIsCurrentPlayer ==
    [][last' \in {"click_applied", "bot_applied"}
       => \A piece \in Movers(board, board') :
             piece.team = board.current_player]_vars

\* The player has a piece on the board with at least one move.
HasMoves(b, player) ==
    \E k \in DOMAIN b.pieces :
        /\ b.pieces[k].team = player
        /\ calculate_moves(b.pieces[k], b.pieces) # << >>

\* The piece and the move of the tuple are not None, the piece is a piece
\* of the board and the move is one of its moves there.
ChoiceIsAMove(b, found) ==
    /\ found.piece # NoPiece
    /\ found.move # NoMove
    /\ \E k \in DOMAIN b.pieces : b.pieces[k] = found.piece
    /\ LET moves == calculate_moves(found.piece, b.pieces)
       IN  \E k \in DOMAIN moves : moves[k] = found.move

\* C26: a call of minimax with depth >= 1 for the player whose turn it is,
\* on a position whose game is not over and in which that player has at
\* least one move, returns a piece and a move that are not None, the move
\* being one calculate_moves produces for that piece in the position.
\* The positions are those of a piece and up to MaxBlockers others, the
\* depths 1..MaxDepth + 1.
C26_SearchReturnsAMove ==
    ( /\ Len(board.pieces) <= MaxBlockers + 1
      /\ ~board.game_over
      /\ ~TwoPiecesOnOneSquare(board.pieces)
      /\ HasMoves(board, board.current_player) )
    => \A depth \in 1..(MaxDepth + 1) :
          ChoiceIsAMove(board,
              minimax(board, depth, board.current_player, 0, -Inf, Inf,
                      NonePos))

\* A block holds a piece exactly when the piece is in self.pieces and
\* stands on the block's square.
GridMatchesPieces(b) ==
    /\ \A sq \in Squares :
          b.blocks[sq] # NoPiece
          => /\ b.blocks[sq].ind_pos = sq
             /\ \E k \in DOMAIN b.pieces : b.pieces[k] = b.blocks[sq]
    /\ \A k \in DOMAIN b.pieces :
          /\ b.pieces[k].ind_pos \in Squares
          /\ b.blocks[b.pieces[k].ind_pos] = b.pieces[k]

====
